---- MODULE Spec2Model ----
(***************************************************************************)
(* A model of bm, the terminal bookmark manager (src/src/main.rs).         *)
(* The state is run_tui's locals (bookmarks, selected, the event being     *)
(* handled), the terminal mode, the bookmark file and what has been        *)
(* written to standard output.  One action per step of run_tui; a key      *)
(* handler is one action, its save included.                               *)
(***************************************************************************)
EXTENDS Integers, Sequences, FiniteSets, TLC

VARIABLES pc, raw, alt, result, bookmarks, selected, file, cwd, key, cmd,
          saves, atRequest, stdout_ctl, stdout_lines

vars == <<pc, raw, alt, result, bookmarks, selected, file, cwd, key, cmd,
          saves, atRequest, stdout_ctl, stdout_lines>>

----------------------------------------------------------------------------
(* Bounds of the model.                                                    *)

\* number of distinct directories the session can see as working directory
\* or find in the bookmark file
NumPaths == 2

\* longest bookmark list a bookmark file of the initial states holds
MaxLoad == 2

----------------------------------------------------------------------------
(* Values.                                                                 *)

PathTable == <<"/a", "/b", "/c", "/d">>

Paths == {PathTable[i] : i \in 1..NumPaths}

\* format!("bookmark_{}", n)
NameTable ==
  <<"bookmark_1", "bookmark_2", "bookmark_3", "bookmark_4", "bookmark_5",
    "bookmark_6", "bookmark_7", "bookmark_8", "bookmark_9">>

FormatName(n) == NameTable[n]

\* the names found in the bookmark files of the initial states
LoadNames == {FormatName(1), FormatName(2)}

Bookmark == [name : LoadNames, path : Paths]

RECURSIVE SeqsUpTo(_, _)
SeqsUpTo(S, n) ==
  IF n = 0 THEN {<<>>}
  ELSE LET shorter == SeqsUpTo(S, n - 1)
       IN  shorter \cup {Append(s, x) : s \in {t \in shorter : Len(t) = n - 1}, x \in S}

\* the bookmark lists a valid bookmark file of the initial states may hold
LoadableLists == SeqsUpTo(Bookmark, MaxLoad)

PathsOf(list) == [i \in 1..Len(list) |-> list[i].path]

NoDuplicatePaths(list) ==
  \A i, j \in 1..Len(list) : list[i].path = list[j].path => i = j

----------------------------------------------------------------------------
(* The bookmark file: lines of a TOML document.                            *)

TableHeader == [k |-> "[[bookmarks]]", v |-> ""]
EmptyArray  == [k |-> "bookmarks = []", v |-> ""]
Garbage     == [k |-> "garbage", v |-> ""]
KeyValue(k, v) == [k |-> k, v |-> v]

\* toml::to_string(&BookmarkFile { bookmarks })
RECURSIVE SerializeTables(_)
SerializeTables(list) ==
  IF list = <<>> THEN <<>>
  ELSE <<TableHeader, KeyValue("name", list[1].name), KeyValue("path", list[1].path)>>
         \o SerializeTables(Tail(list))

to_string(list) ==
  IF list = <<>> THEN <<EmptyArray>> ELSE SerializeTables(list)

ParseError == [ok |-> FALSE, bookmarks |-> <<>>]

\* the key/value lines of the table that starts at the head of lines
RECURSIVE TableBody(_)
TableBody(lines) ==
  IF lines = <<>> \/ lines[1].k \notin {"name", "path"} THEN <<>>
  ELSE <<lines[1]>> \o TableBody(Tail(lines))

\* the parse collecting the tables last to first
RECURSIVE ParseTablesReversed(_)
ParseTablesReversed(lines) ==
  IF lines = <<>> THEN [ok |-> TRUE, bookmarks |-> <<>>]
  ELSE IF lines[1] # TableHeader THEN ParseError
  ELSE LET body  == TableBody(Tail(lines))
           names == {i \in 1..Len(body) : body[i].k = "name"}
           paths == {i \in 1..Len(body) : body[i].k = "path"}
       IN  IF Cardinality(names) # 1 \/ Cardinality(paths) # 1 THEN ParseError
           ELSE LET rest == ParseTablesReversed(SubSeq(lines, Len(body) + 2, Len(lines)))
                    b    == [name |-> body[CHOOSE i \in names : TRUE].v,
                             path |-> body[CHOOSE i \in paths : TRUE].v]
                IN  IF rest.ok
                    THEN [ok |-> TRUE, bookmarks |-> rest.bookmarks \o <<b>>]
                    ELSE ParseError

\* parses a sequence of [[bookmarks]] tables; each needs name and path once
RECURSIVE ParseTables(_)
ParseTables(lines) ==
  IF lines = <<>> THEN [ok |-> TRUE, bookmarks |-> <<>>]
  ELSE IF lines[1] # TableHeader THEN ParseError
  ELSE LET body  == TableBody(Tail(lines))
           names == {i \in 1..Len(body) : body[i].k = "name"}
           paths == {i \in 1..Len(body) : body[i].k = "path"}
       IN  IF Cardinality(names) # 1 \/ Cardinality(paths) # 1 THEN ParseError
           ELSE LET rest == ParseTables(SubSeq(lines, Len(body) + 2, Len(lines)))
                    b    == [name |-> body[CHOOSE i \in names : TRUE].v,
                             path |-> body[CHOOSE i \in paths : TRUE].v]
                IN  IF rest.ok
                    THEN [ok |-> TRUE, bookmarks |-> <<b>> \o rest.bookmarks]
                    ELSE ParseError

\* toml::from_str::<BookmarkFile>(&content): the document must define the
\* key bookmarks, as an empty array or as an array of tables
from_str(content) ==
  IF content = <<>> THEN ParseError
  ELSE IF content = <<EmptyArray>> THEN [ok |-> TRUE, bookmarks |-> <<>>]
  ELSE ParseTables(content)

\* a line that is not valid UTF-8
InvalidUtf8 == [k |-> "invalid utf-8", v |-> ""]

Absent == [exists |-> FALSE, readable |-> FALSE, content |-> <<>>]

Present(content) == [exists |-> TRUE, readable |-> TRUE, content |-> content]

Unreadable(content) == [exists |-> TRUE, readable |-> FALSE, content |-> content]

\* fs::read_to_string(path).unwrap_or_default()
read_to_string(f) ==
  IF f.readable /\ \A i \in 1..Len(f.content) : f.content[i] # InvalidUtf8
  THEN f.content
  ELSE <<>>

\* load_bookmarks()
load_bookmarks(f) ==
  IF f.exists
  THEN LET parsed == from_str(read_to_string(f))
       IN  IF parsed.ok THEN parsed.bookmarks ELSE <<>>
  ELSE <<>>

\* a table whose fields come in the other order, and documents that do not
\* parse: empty, garbage, a table without its path, a table after garbage
SwappedFields(b) ==
  <<TableHeader, KeyValue("path", b.path), KeyValue("name", b.name)>>

MalformedContents ==
  { <<>>, <<Garbage>>, <<TableHeader, KeyValue("name", FormatName(1))>>,
    <<EmptyArray, Garbage>>, <<InvalidUtf8>> }

InitialFiles ==
  {Absent}
    \cup {Present(to_string(l)) : l \in LoadableLists}
    \cup {Present(SwappedFields(b)) : b \in {x \in Bookmark : x.name = FormatName(1)}}
    \cup {Present(c) : c \in MalformedContents}
    \cup {Unreadable(to_string(<<b>>)) : b \in {x \in Bookmark : x.name = FormatName(1)}}

----------------------------------------------------------------------------
(* save_bookmarks: create_dir_all, to_string, fs::write, each unwrapped.   *)
(* to_string cannot fail on two string fields; the directory creation and  *)
(* the write can.  A write that fails after the file was opened leaves it  *)
(* truncated.                                                              *)

SaveOutcomes == {"ok", "create_dir_failed", "open_failed", "write_failed"}

\* the save appending the document to the file instead of replacing it
save_bookmarks_appending(f, list, outcome) ==
  CASE outcome = "ok" ->
         [exists |-> TRUE,
          readable |-> IF f.exists THEN f.readable ELSE TRUE,
          content |-> f.content \o to_string(list)]
    [] outcome = "write_failed" ->
         [exists |-> TRUE,
          readable |-> IF f.exists THEN f.readable ELSE TRUE,
          content |-> <<>>]
    [] OTHER -> f

save_bookmarks(f, list, outcome) ==
  CASE outcome = "ok" ->
         [exists |-> TRUE,
          readable |-> IF f.exists THEN f.readable ELSE TRUE,
          content |-> to_string(list)]
    [] outcome = "write_failed" ->
         [exists |-> TRUE,
          readable |-> IF f.exists THEN f.readable ELSE TRUE,
          content |-> <<>>]
    [] OTHER -> f

----------------------------------------------------------------------------
(* Terminal events and the working directory.                              *)

KeyCodes ==
  {"q", "j", "Down", "k", "Up", "u", "!", "y", "Y", "n", "N", "Enter", "x"}

KeyKinds == {"Press", "Release", "Repeat"}

KeyEvent(kind, code) == [type |-> "Key", kind |-> kind, code |-> code]

Press(code) == KeyEvent("Press", code)

Resize == [type |-> "Resize", kind |-> "", code |-> ""]

NoEvent == [type |-> "None", kind |-> "", code |-> ""]

\* what event::read() can return
Events == {KeyEvent(kind, code) : kind \in KeyKinds, code \in KeyCodes} \cup {Resize}

IsPress(ev, codes) == ev.type = "Key" /\ ev.kind = "Press" /\ ev.code \in codes

\* the codes with a match arm, in the main loop and in the confirmation loop
NormalCodes == {"q", "j", "Down", "k", "Up", "u", "!", "Enter"}
ConfirmCodes == {"y", "Y", "n", "N"}

CwdUnread == [status |-> "unread", path |-> ""]

\* std::env::current_dir() and cwd.to_str()
CwdResults ==
  {[status |-> "err", path |-> ""], [status |-> "non_utf8", path |-> ""]}
    \cup {[status |-> "ok", path |-> p] : p \in Paths}

NoRequest == [bookmarks |-> <<>>, selected |-> 0, file |-> Absent]

----------------------------------------------------------------------------
(* The arithmetic of the handlers.  selected is a 0-based usize.           *)

Min(a, b) == IF a < b THEN a ELSE b

saturating_sub(a, b) == IF a >= b THEN a - b ELSE 0

\* the cursor wrapping to the top after the last bookmark
MoveDownIndexWraps(sel, len) == IF len = 0 THEN 0 ELSE (sel + 1) % len

\* (selected + 1).min(bookmarks.len().saturating_sub(1))
MoveDownIndex(sel, len) == Min(sel + 1, saturating_sub(len, 1))

\* selected.saturating_sub(1)
MoveUpIndex(sel) == saturating_sub(sel, 1)

\* remove, taking the 0-based index for a 1-based position
remove_one_based(list, index) ==
  SubSeq(list, 1, index - 1) \o SubSeq(list, index + 1, Len(list))

\* bookmarks.remove(selected), for selected < bookmarks.len()
remove(list, index) ==
  SubSeq(list, 1, index) \o SubSeq(list, index + 2, Len(list))

\* the cursor left where it was after a remove
SelectedAfterRemoveStale(sel, len) == sel

\* if selected >= bookmarks.len() && selected > 0 { selected -= 1; }
SelectedAfterRemove(sel, len) ==
  IF sel >= len /\ sel > 0 THEN sel - 1 ELSE sel

\* the duplicate test looking at the last bookmark only
HasPathLastOnly(list, path) == list # <<>> /\ list[Len(list)].path = path

\* the duplicate test comparing the name with the path
HasPathByName(list, path) == \E i \in 1..Len(list) : list[i].name = path

\* bookmarks.iter().any(|b| b.path == path)
HasPath(list, path) == \E i \in 1..Len(list) : list[i].path = path

\* the name numbered by the length before the push, without the + 1
push_named_by_len(list, path) ==
  Append(list, [name |-> IF list = <<>> THEN "bookmark_0"
                         ELSE FormatName(Len(list)),
                path |-> path])

\* the name numbered after the highest number in use
push_next_free_name(list, path) ==
  LET used == {n \in 1..Len(NameTable) :
                 \E i \in 1..Len(list) : list[i].name = NameTable[n]}
      next == IF used = {} THEN 1
              ELSE (CHOOSE n \in used : \A m \in used : m <= n) + 1
  IN  Append(list, [name |-> FormatName(next), path |-> path])

\* bookmarks.push(Bookmark { name: format!("bookmark_{}", len + 1), path })
push(list, path) ==
  Append(list, [name |-> FormatName(Len(list) + 1), path |-> path])

----------------------------------------------------------------------------
(* State.                                                                  *)

Init ==
  /\ pc = "enable_raw"
  /\ raw = FALSE
  /\ alt = FALSE
  /\ result = "running"
  /\ bookmarks = <<>>
  /\ selected = 0
  /\ file \in InitialFiles
  /\ cwd = CwdUnread
  /\ key = NoEvent
  /\ cmd = "None"
  /\ saves = 0
  /\ atRequest = NoRequest
  /\ stdout_ctl = {}
  /\ stdout_lines = <<>>

session == <<bookmarks, selected, file, cwd, key, cmd, saves, atRequest>>

\* a `?` that returns the error from run_tui at once, skipping the cleanup
ReturnErr ==
  /\ pc' = "returned"
  /\ result' = "err"

----------------------------------------------------------------------------
(* Terminal setup, lines 57-70.                                            *)

EnableRawMode ==
  /\ pc = "enable_raw"
  /\ \/ /\ raw' = TRUE
        /\ pc' = "enter_alt"
        /\ UNCHANGED result
     \/ /\ ReturnErr
        /\ UNCHANGED raw
  /\ UNCHANGED <<alt, session, stdout_ctl, stdout_lines>>

EnterAlternateScreen ==
  /\ pc = "enter_alt"
  /\ \/ /\ alt' = TRUE
        /\ stdout_ctl' = stdout_ctl \cup {"EnterAlternateScreen", "Hide"}
        /\ pc' = "new_terminal"
        /\ UNCHANGED result
     \/ /\ ReturnErr
        /\ UNCHANGED <<alt, stdout_ctl>>
  /\ UNCHANGED <<raw, session, stdout_lines>>

NewTerminal ==
  /\ pc = "new_terminal"
  /\ \/ /\ pc' = "clear"
        /\ UNCHANGED result
     \/ ReturnErr
  /\ UNCHANGED <<raw, alt, session, stdout_ctl, stdout_lines>>

Clear ==
  /\ pc = "clear"
  /\ \/ /\ stdout_ctl' = stdout_ctl \cup {"Clear"}
        /\ pc' = "load"
        /\ UNCHANGED result
     \/ /\ ReturnErr
        /\ UNCHANGED stdout_ctl
  /\ UNCHANGED <<raw, alt, session, stdout_lines>>

\* the load writing the list it read back to the file
LoadAndWrite ==
  /\ pc = "load"
  /\ bookmarks' = load_bookmarks(file)
  /\ file' = save_bookmarks(file, bookmarks', "ok")
  /\ selected' = 0
  /\ pc' = "draw"
  /\ UNCHANGED <<raw, alt, result, cwd, key, cmd, saves, atRequest,
                 stdout_ctl, stdout_lines>>

Load ==
  /\ pc = "load"
  /\ bookmarks' = load_bookmarks(file)
  /\ selected' = 0
  /\ pc' = "draw"
  /\ UNCHANGED <<raw, alt, result, file, cwd, key, cmd, saves, atRequest,
                 stdout_ctl, stdout_lines>>

----------------------------------------------------------------------------
(* The main loop, lines 72-200.                                            *)

Draw ==
  /\ pc = "draw"
  /\ \/ /\ stdout_ctl' = stdout_ctl \cup {"Frame"}
        /\ pc' = "read"
        /\ UNCHANGED result
     \/ /\ ReturnErr
        /\ UNCHANGED stdout_ctl
  /\ UNCHANGED <<raw, alt, session, stdout_lines>>

ReadFault ==
  /\ pc = "read"
  /\ ReturnErr
  /\ UNCHANGED <<raw, alt, session, stdout_ctl, stdout_lines>>

Quit ==
  /\ pc = "read"
  /\ key' = Press("q")
  /\ cmd' = "Quit"
  /\ saves' = 0
  /\ pc' = "disable_raw"
  /\ UNCHANGED <<raw, alt, result, bookmarks, selected, file, cwd, atRequest,
                 stdout_ctl, stdout_lines>>

MoveDown ==
  /\ pc = "read"
  /\ \E code \in {"j", "Down"} : key' = Press(code)
  /\ cmd' = "MoveDown"
  /\ saves' = 0
  /\ selected' = MoveDownIndex(selected, Len(bookmarks))
  /\ pc' = "draw"
  /\ UNCHANGED <<raw, alt, result, bookmarks, file, cwd, atRequest,
                 stdout_ctl, stdout_lines>>

MoveUp ==
  /\ pc = "read"
  /\ \E code \in {"k", "Up"} : key' = Press(code)
  /\ cmd' = "MoveUp"
  /\ saves' = 0
  /\ selected' = MoveUpIndex(selected)
  /\ pc' = "draw"
  /\ UNCHANGED <<raw, alt, result, bookmarks, file, cwd, atRequest,
                 stdout_ctl, stdout_lines>>

AddCurrentDirectory ==
  /\ pc = "read"
  /\ key' = Press("u")
  /\ cmd' = "AddCurrentDirectory"
  /\ \E dir \in CwdResults :
       /\ cwd' = dir
       /\ IF dir.status = "ok" /\ ~HasPath(bookmarks, dir.path)
          THEN \E outcome \in SaveOutcomes :
                 /\ bookmarks' = push(bookmarks, dir.path)
                 /\ file' = save_bookmarks(file, bookmarks', outcome)
                 /\ saves' = 1
                 /\ IF outcome = "ok"
                    THEN /\ selected' = Len(bookmarks') - 1
                         /\ pc' = "draw"
                         /\ UNCHANGED result
                    ELSE /\ pc' = "panicked"
                         /\ result' = "panic_save"
                         /\ UNCHANGED selected
          ELSE /\ saves' = 0
               /\ pc' = "draw"
               /\ UNCHANGED <<bookmarks, selected, file, result>>
  /\ UNCHANGED <<raw, alt, atRequest, stdout_ctl, stdout_lines>>

\* '!' deleting at once, without the confirmation loop
RequestDeleteImmediately ==
  /\ pc = "read"
  /\ key' = Press("!")
  /\ cmd' = "RequestDelete"
  /\ IF bookmarks # <<>>
     THEN /\ bookmarks' = remove(bookmarks, selected)
          /\ selected' = SelectedAfterRemove(selected, Len(bookmarks'))
          /\ file' = save_bookmarks(file, bookmarks', "ok")
          /\ saves' = 1
     ELSE /\ saves' = 0
          /\ UNCHANGED <<bookmarks, selected, file>>
  /\ pc' = "draw"
  /\ UNCHANGED <<raw, alt, result, cwd, atRequest, stdout_ctl, stdout_lines>>

RequestDelete ==
  /\ pc = "read"
  /\ key' = Press("!")
  /\ cmd' = "RequestDelete"
  /\ saves' = 0
  /\ IF bookmarks # <<>>
     THEN /\ pc' = "confirm_draw"
          /\ atRequest' = [bookmarks |-> bookmarks, selected |-> selected,
                           file |-> file]
     ELSE /\ pc' = "draw"
          /\ UNCHANGED atRequest
  /\ UNCHANGED <<raw, alt, result, bookmarks, selected, file, cwd,
                 stdout_ctl, stdout_lines>>

\* Enter restoring the terminal before it prints the path
SelectCurrentAfterRestore ==
  /\ pc = "read"
  /\ key' = Press("Enter")
  /\ cmd' = "SelectCurrent"
  /\ saves' = 0
  /\ IF selected < Len(bookmarks)
     THEN /\ raw' = FALSE
          /\ alt' = FALSE
          /\ stdout_ctl' = stdout_ctl \cup {"LeaveAlternateScreen", "Show"}
          /\ stdout_lines' = Append(stdout_lines, bookmarks[selected + 1].path)
          /\ pc' = "returned"
          /\ result' = "ok"
     ELSE /\ pc' = "draw"
          /\ UNCHANGED <<raw, alt, result, stdout_ctl, stdout_lines>>
  /\ UNCHANGED <<bookmarks, selected, file, cwd, atRequest>>

SelectCurrent ==
  /\ pc = "read"
  /\ key' = Press("Enter")
  /\ cmd' = "SelectCurrent"
  /\ saves' = 0
  /\ IF selected < Len(bookmarks)
     THEN /\ stdout_lines' = Append(stdout_lines, bookmarks[selected + 1].path)
          /\ pc' = "disable_raw"
     ELSE /\ pc' = "draw"
          /\ UNCHANGED stdout_lines
  /\ UNCHANGED <<raw, alt, result, bookmarks, selected, file, cwd, atRequest,
                 stdout_ctl>>

\* the main loop matching the code of any key event, whatever its kind
IgnoreKindUnchecked ==
  /\ pc = "read"
  /\ \E ev \in Events :
       /\ ~IsPress(ev, NormalCodes)
       /\ key' = ev
       /\ selected' = IF ev.type = "Key" /\ ev.code \in {"j", "Down"}
                      THEN MoveDownIndex(selected, Len(bookmarks))
                      ELSE selected
  /\ cmd' = "Ignored"
  /\ saves' = 0
  /\ pc' = "draw"
  /\ UNCHANGED <<raw, alt, result, bookmarks, file, cwd, atRequest,
                 stdout_ctl, stdout_lines>>

\* the main loop taking y and Y as a delete, as the confirmation loop does
IgnoreYesDeletes ==
  /\ pc = "read"
  /\ \E ev \in Events :
       /\ ~IsPress(ev, NormalCodes)
       /\ key' = ev
       /\ IF IsPress(ev, {"y", "Y"}) /\ selected < Len(bookmarks)
          THEN /\ bookmarks' = remove(bookmarks, selected)
               /\ selected' = SelectedAfterRemove(selected, Len(bookmarks'))
               /\ file' = save_bookmarks(file, bookmarks', "ok")
               /\ saves' = 1
          ELSE /\ saves' = 0
               /\ UNCHANGED <<bookmarks, selected, file>>
  /\ cmd' = "Ignored"
  /\ pc' = "draw"
  /\ UNCHANGED <<raw, alt, result, cwd, atRequest, stdout_ctl, stdout_lines>>

\* a press of a key without an arm, a release or repeat, an event that is
\* not a key
Ignore ==
  /\ pc = "read"
  /\ \E ev \in Events :
       /\ ~IsPress(ev, NormalCodes)
       /\ key' = ev
  /\ cmd' = "Ignored"
  /\ saves' = 0
  /\ pc' = "draw"
  /\ UNCHANGED <<raw, alt, result, bookmarks, selected, file, cwd, atRequest,
                 stdout_ctl, stdout_lines>>

----------------------------------------------------------------------------
(* The confirmation loop, lines 135-187.                                   *)

ConfirmDraw ==
  /\ pc = "confirm_draw"
  /\ \/ /\ stdout_ctl' = stdout_ctl \cup {"ConfirmFrame"}
        /\ pc' = "confirm_read"
        /\ UNCHANGED result
     \/ /\ ReturnErr
        /\ UNCHANGED stdout_ctl
  /\ UNCHANGED <<raw, alt, session, stdout_lines>>

ConfirmReadFault ==
  /\ pc = "confirm_read"
  /\ ReturnErr
  /\ UNCHANGED <<raw, alt, session, stdout_ctl, stdout_lines>>

ConfirmYes ==
  /\ pc = "confirm_read"
  /\ \E code \in {"y", "Y"} : key' = Press(code)
  /\ cmd' = "ConfirmYes"
  /\ atRequest' = NoRequest
  /\ IF selected < Len(bookmarks)
     THEN \E outcome \in SaveOutcomes :
            /\ bookmarks' = remove(bookmarks, selected)
            /\ selected' = SelectedAfterRemove(selected, Len(bookmarks'))
            /\ file' = save_bookmarks(file, bookmarks', outcome)
            /\ saves' = 1
            /\ IF outcome = "ok"
               THEN /\ pc' = "draw"
                    /\ UNCHANGED result
               ELSE /\ pc' = "panicked"
                    /\ result' = "panic_save"
     ELSE /\ pc' = "panicked"
          /\ result' = "panic_index"
          /\ saves' = 0
          /\ UNCHANGED <<bookmarks, selected, file>>
  /\ UNCHANGED <<raw, alt, cwd, stdout_ctl, stdout_lines>>

\* n or N leaving the confirmation loop with the cursor back at the top
ConfirmNoResetsCursor ==
  /\ pc = "confirm_read"
  /\ \E code \in {"n", "N"} : key' = Press(code)
  /\ cmd' = "ConfirmNo"
  /\ saves' = 0
  /\ atRequest' = NoRequest
  /\ selected' = 0
  /\ pc' = "draw"
  /\ UNCHANGED <<raw, alt, result, bookmarks, file, cwd,
                 stdout_ctl, stdout_lines>>

ConfirmNo ==
  /\ pc = "confirm_read"
  /\ \E code \in {"n", "N"} : key' = Press(code)
  /\ cmd' = "ConfirmNo"
  /\ saves' = 0
  /\ atRequest' = NoRequest
  /\ pc' = "draw"
  /\ UNCHANGED <<raw, alt, result, bookmarks, selected, file, cwd,
                 stdout_ctl, stdout_lines>>

\* the confirmation loop ending on any key it has no arm for
ConfirmIgnoreLeaves ==
  /\ pc = "confirm_read"
  /\ \E ev \in Events :
       /\ ~IsPress(ev, ConfirmCodes)
       /\ key' = ev
  /\ cmd' = "ConfirmIgnored"
  /\ saves' = 0
  /\ atRequest' = NoRequest
  /\ pc' = "draw"
  /\ UNCHANGED <<raw, alt, result, bookmarks, selected, file, cwd,
                 stdout_ctl, stdout_lines>>

ConfirmIgnore ==
  /\ pc = "confirm_read"
  /\ \E ev \in Events :
       /\ ~IsPress(ev, ConfirmCodes)
       /\ key' = ev
  /\ cmd' = "ConfirmIgnored"
  /\ saves' = 0
  /\ pc' = "confirm_draw"
  /\ UNCHANGED <<raw, alt, result, bookmarks, selected, file, cwd, atRequest,
                 stdout_ctl, stdout_lines>>

----------------------------------------------------------------------------
(* Cleanup, lines 202-210.                                                 *)

DisableRawMode ==
  /\ pc = "disable_raw"
  /\ \/ /\ raw' = FALSE
        /\ pc' = "leave_alt"
        /\ UNCHANGED result
     \/ /\ ReturnErr
        /\ UNCHANGED raw
  /\ UNCHANGED <<alt, session, stdout_ctl, stdout_lines>>

LeaveAlternateScreen ==
  /\ pc = "leave_alt"
  /\ pc' = "returned"
  /\ \/ /\ alt' = FALSE
        /\ stdout_ctl' = stdout_ctl \cup {"LeaveAlternateScreen", "Show"}
        /\ result' = "ok"
     \/ /\ result' = "err"
        /\ UNCHANGED <<alt, stdout_ctl>>
  /\ UNCHANGED <<raw, session, stdout_lines>>

Next ==
  \/ EnableRawMode
  \/ EnterAlternateScreen
  \/ NewTerminal
  \/ Clear
  \/ Load
  \/ Draw
  \/ ReadFault
  \/ Quit
  \/ MoveDown
  \/ MoveUp
  \/ AddCurrentDirectory
  \/ RequestDelete
  \/ SelectCurrent
  \/ Ignore
  \/ ConfirmDraw
  \/ ConfirmReadFault
  \/ ConfirmYes
  \/ ConfirmNo
  \/ ConfirmIgnore
  \/ DisableRawMode
  \/ LeaveAlternateScreen

Spec == Init /\ [][Next]_vars

show_confirm == pc \in {"confirm_draw", "confirm_read"}

TypeOK ==
  /\ pc \in {"enable_raw", "enter_alt", "new_terminal", "clear", "load",
             "draw", "read", "confirm_draw", "confirm_read", "disable_raw",
             "leave_alt", "returned", "panicked"}
  /\ raw \in BOOLEAN
  /\ alt \in BOOLEAN
  /\ result \in {"running", "ok", "err", "panic_save", "panic_index"}
  /\ selected \in Nat
  /\ key \in Events \cup {NoEvent}
  /\ saves \in 0..1

----------------------------------------------------------------------------
(* Properties.                                                             *)

\* this step is the handler of a press of one of codes, read by the loop
\* that waits at position loop (a failed read returns and handles nothing)
Handles(loop, codes) ==
  /\ pc = loop
  /\ pc' # "returned"
  /\ IsPress(key', codes)

\* list without its element at 0-based index i, element by element
IsListWithout(shorter, list, i) ==
  /\ Len(shorter) = Len(list) - 1
  /\ \A j \in 1..Len(shorter) :
       shorter[j] = IF j <= i THEN list[j] ELSE list[j + 1]

CountPath(list, path) == Cardinality({i \in 1..Len(list) : list[i].path = path})

\* C1: no bookmark is removed without confirmation.  A press of '!' on a
\* non-empty list enters confirmation mode and changes neither bookmarks,
\* selected nor the file; on an empty list it changes nothing and stays in
\* normal mode; every step that shortens the list handles a press of y or Y
\* read by the confirmation loop.
C1_DeleteOnlyAfterConfirmation ==
  [][ /\ (Handles("read", {"!"}) /\ bookmarks # <<>>)
           => (show_confirm' /\ UNCHANGED <<bookmarks, selected, file>>)
      /\ (Handles("read", {"!"}) /\ bookmarks = <<>>)
           => (pc' = "draw" /\ UNCHANGED <<bookmarks, selected, file>>)
      /\ Len(bookmarks') < Len(bookmarks)
           => (show_confirm /\ Handles("confirm_read", {"y", "Y"})) ]_vars

C1_Witness ==
  /\ pc = "confirm_draw"
  /\ key = Press("!")
  /\ cmd = "RequestDelete"
  /\ Len(bookmarks) = 2
  /\ atRequest.bookmarks = bookmarks

\* C2: a confirmed delete on a list of length n >= 1 with the cursor at
\* index i removes exactly the bookmark at i, the others keeping their
\* order; selected becomes 0 when the list is emptied, i - 1 when i was the
\* last index, and stays i otherwise.  ["/a","/b"] with selected = 1
\* becomes ["/a"] with selected = 0.
C2_ConfirmYesRemovesSelected ==
  [][ (Handles("confirm_read", {"y", "Y"})
         /\ Len(bookmarks) >= 1 /\ selected < Len(bookmarks))
        => LET n == Len(bookmarks)
               i == selected
           IN  /\ IsListWithout(bookmarks', bookmarks, i)
               /\ selected' = IF n = 1 THEN 0
                              ELSE IF i = n - 1 THEN i - 1 ELSE i
               /\ (PathsOf(bookmarks) = <<"/a", "/b">> /\ i = 1)
                    => (PathsOf(bookmarks') = <<"/a">> /\ selected' = 0) ]_vars

C2_Witness ==
  /\ cmd = "ConfirmYes"
  /\ pc = "draw"
  /\ saves = 1
  /\ PathsOf(bookmarks) = <<"/a">>
  /\ selected = 0

\* C3: the cursor is valid throughout the session: selected is a valid
\* index whenever the list is non-empty, the remove of the confirmation
\* loop always finds its index inside the list, and no handler ever
\* indexes outside the list.
C3_CursorValid ==
  /\ selected >= 0
  /\ bookmarks # <<>> => selected < Len(bookmarks)
  /\ show_confirm => selected < Len(bookmarks)
  /\ result # "panic_index"

C3_Witness ==
  /\ cmd = "ConfirmYes"
  /\ pc = "draw"
  /\ Len(bookmarks) = 2
  /\ selected = 1

\* C4: once the terminal is in raw mode or on the alternate screen, the
\* function returns only from its cleanup code: no return leaves the
\* terminal taken over without the restoration having been run.
C4_TerminalRestoredOnEveryReturn ==
  [][ (pc # "returned" /\ pc' = "returned" /\ (raw \/ alt))
        => pc \in {"disable_raw", "leave_alt"} ]_vars

\* C5: all that standard output ever receives is the line of the selected
\* path, once the session has ended by SelectCurrent on a non-empty list;
\* no terminal control sequence and no frame is written to it.
C5_StdoutHoldsOnlyThePath ==
  /\ stdout_ctl = {}
  /\ stdout_lines =
       IF cmd = "SelectCurrent" /\ selected < Len(bookmarks)
       THEN <<bookmarks[selected + 1].path>>
       ELSE <<>>

\* C6: a handler that saves completes whether or not the save succeeds:
\* the session goes on to the next render and is not aborted.
C6_SaveFailureTolerated ==
  [][ (pc \in {"read", "confirm_read"} /\ pc' # "returned" /\ saves' = 1)
        => (pc' = "draw" /\ result' = "running") ]_vars

\* C7: in confirmation mode a key press other than y, Y, n, N changes
\* neither bookmarks, selected, the file nor the mode and does not end the
\* session; confirmation mode is left for normal mode only by y, Y, n or N;
\* the bookmark that y or Y deletes is the one selected when '!' was
\* pressed.
C7_ConfirmationIsModal ==
  [][ /\ (pc = "confirm_read" /\ pc' # "returned"
            /\ ~IsPress(key', ConfirmCodes))
           => /\ UNCHANGED <<bookmarks, selected, file>>
              /\ show_confirm'
              /\ result' = "running"
      /\ (show_confirm /\ ~show_confirm' /\ pc' # "returned")
           => Handles("confirm_read", ConfirmCodes)
      /\ Handles("confirm_read", {"y", "Y"})
           => IsListWithout(bookmarks', atRequest.bookmarks, atRequest.selected)
    ]_vars

C7_Witness ==
  /\ pc = "confirm_draw"
  /\ cmd = "ConfirmIgnored"
  /\ key = Press("q")
  /\ bookmarks # <<>>
  /\ bookmarks = atRequest.bookmarks
  /\ selected = atRequest.selected

\* C8: answering the confirmation with n or N returns to normal mode with
\* bookmarks, selected and the file as they were when '!' was pressed, and
\* nothing was saved in between.
C8_ConfirmNoRestores ==
  [][ /\ Handles("confirm_read", {"n", "N"})
           => /\ pc' = "draw"
              /\ bookmarks' = atRequest.bookmarks
              /\ selected' = atRequest.selected
              /\ file' = atRequest.file
              /\ saves = 0
              /\ saves' = 0
      /\ (Handles("read", {"!"}) /\ bookmarks # <<>>)
           => atRequest' = [bookmarks |-> bookmarks, selected |-> selected,
                            file |-> file] ]_vars

C8_Witness ==
  /\ cmd = "ConfirmNo"
  /\ pc = "draw"
  /\ key = Press("N")
  /\ Len(bookmarks) = 2
  /\ selected = 1

\* C9: after the load, no step gives two bookmarks the same path: a list
\* without duplicate paths stays without duplicate paths.
C9_PathsStayUnique ==
  [][ (pc # "load" /\ NoDuplicatePaths(bookmarks))
        => NoDuplicatePaths(bookmarks') ]_vars

C9_Witness ==
  /\ cmd = "AddCurrentDirectory"
  /\ pc = "draw"
  /\ saves = 1
  /\ Len(bookmarks) = 2
  /\ NoDuplicatePaths(bookmarks)
  /\ cwd.status = "ok"
  /\ bookmarks[2].path = cwd.path

\* a press of u from a working directory that the list already holds
AddOfKnownPath ==
  /\ Handles("read", {"u"})
  /\ cwd'.status = "ok"
  /\ CountPath(bookmarks, cwd'.path) >= 1

\* a press of u right after a press of u, from the same working directory
SecondAdd ==
  /\ Handles("read", {"u"})
  /\ cmd = "AddCurrentDirectory"
  /\ cwd.status = "ok"
  /\ cwd' = cwd

\* C10 as stated: a press of u from a working directory already in the list
\* changes nothing and saves nothing, a second press in succession changes
\* nothing, and the list then holds exactly one entry for that path.
C10_AddIdempotentOneEntry ==
  [][ /\ AddOfKnownPath
           => /\ UNCHANGED <<bookmarks, selected, file>>
              /\ saves' = 0
              /\ CountPath(bookmarks', cwd'.path) = 1
      /\ SecondAdd
           => /\ UNCHANGED <<bookmarks, selected, file>>
              /\ saves' = 0
              /\ CountPath(bookmarks', cwd'.path) = 1 ]_vars

\* C10 as amended: a press of u from a working directory already in the
\* list changes nothing and saves nothing, so does a second press in
\* succession, and the list holds exactly one entry for that path if it
\* held no duplicate paths before the press.
C10_AddIdempotent ==
  [][ /\ AddOfKnownPath
           => /\ UNCHANGED <<bookmarks, selected, file>>
              /\ saves' = 0
              /\ NoDuplicatePaths(bookmarks)
                   => CountPath(bookmarks', cwd'.path) = 1
      /\ SecondAdd
           => /\ UNCHANGED <<bookmarks, selected, file>>
              /\ saves' = 0
              /\ NoDuplicatePaths(bookmarks)
                   => CountPath(bookmarks', cwd'.path) = 1 ]_vars

C10_Witness ==
  /\ cmd = "AddCurrentDirectory"
  /\ pc = "draw"
  /\ saves = 0
  /\ cwd.status = "ok"
  /\ CountPath(bookmarks, cwd.path) = 1
  /\ Len(bookmarks) = 2

\* a press of u from a working directory that the list does not hold
AddOfNewPath ==
  /\ Handles("read", {"u"})
  /\ cwd'.status = "ok"
  /\ CountPath(bookmarks, cwd'.path) = 0

C12_MovesClampAndNeverWrap ==
  [][ /\ Handles("read", {"j", "Down"})
           => /\ selected' = IF bookmarks = <<>> THEN selected
                             ELSE IF selected + 1 <= Len(bookmarks) - 1
                                  THEN selected + 1
                                  ELSE Len(bookmarks) - 1
              /\ selected = Len(bookmarks) - 1 => selected' = selected
              /\ UNCHANGED <<bookmarks, file>>
              /\ saves' = 0
              /\ pc' = "draw"
      /\ Handles("read", {"k", "Up"})
           => /\ selected' = IF selected >= 1 THEN selected - 1 ELSE 0
              /\ bookmarks = <<>> => selected' = selected
              /\ UNCHANGED <<bookmarks, file>>
              /\ saves' = 0
              /\ pc' = "draw" ]_vars

C12_Witness ==
  /\ cmd = "MoveDown"
  /\ pc = "draw"
  /\ Len(bookmarks) = 3
  /\ selected = 2

\* C13: without terminal I/O faults, the loop ends exactly on a press of q
\* in normal mode or a press of Enter in normal mode on a non-empty list;
\* every other event read, in either mode, is followed by another render;
\* once the loop has ended no command is handled any more.
C13_LoopEndsOnlyOnQuitOrSelect ==
  [][ /\ (pc \in {"read", "confirm_read"} /\ pc' # "returned")
           => ( pc' \notin {"draw", "confirm_draw"}
                  <=> /\ pc = "read"
                      /\ \/ IsPress(key', {"q"})
                         \/ IsPress(key', {"Enter"}) /\ bookmarks # <<>> )
      /\ pc \in {"disable_raw", "leave_alt", "returned", "panicked"}
           => UNCHANGED <<bookmarks, selected, file, key, cmd>> ]_vars

\* a step that handles a command which saves: an add that appends, or a
\* confirmed delete
SavingStep ==
  \/ AddOfNewPath
  \/ Handles("confirm_read", {"y", "Y"})

\* C14: the file is written only by an add that appends and by a confirmed
\* delete, each calling save_bookmarks exactly once; every other handler
\* and every step outside the two reads (setup, load, renders, cleanup)
\* leaves the file alone, so a file absent at startup stays absent until
\* the first such command.
C14_OnlyAddAndDeleteWrite ==
  [][ /\ file' # file => (SavingStep /\ saves' = 1)
      /\ (pc \in {"read", "confirm_read"} /\ pc' # "returned")
           => saves' = IF SavingStep THEN 1 ELSE 0
      /\ pc \notin {"read", "confirm_read"} => UNCHANGED <<file, saves>>
      /\ (~file.exists /\ file'.exists) => SavingStep ]_vars

C14_Witness ==
  /\ pc = "draw"
  /\ cmd = "AddCurrentDirectory"
  /\ saves = 1
  /\ Len(bookmarks) = 1
  /\ file = Present(to_string(bookmarks))

\* the file is as it was at startup: the load has run and no event was read
JustLoaded == pc = "draw" /\ cmd = "None"

\* C15: the load never fails the program.  A file that is absent, that
\* cannot be read or that does not parse as a bookmark document gives the
\* empty list, a valid document gives its bookmarks in file order, and the
\* session starts with selected = 0.
C15_LoadNeverFails ==
  JustLoaded
    => /\ result = "running"
       /\ selected = 0
       /\ ~file.exists => bookmarks = <<>>
       /\ ~file.readable => bookmarks = <<>>
       /\ \A c \in MalformedContents : file.content = c => bookmarks = <<>>
       /\ \A l \in LoadableLists :
            file = Present(to_string(l)) => bookmarks = l
       /\ \A b \in Bookmark :
            file = Present(SwappedFields(b)) => bookmarks = <<b>>

C15_Witness ==
  /\ JustLoaded
  /\ Len(bookmarks) = 2
  /\ bookmarks[1] # bookmarks[2]
  /\ file = Present(to_string(bookmarks))

\* this step handles an event that is not a key press: a release, a repeat
\* or an event that is not a key
HandlesNonPress ==
  /\ pc \in {"read", "confirm_read"}
  /\ pc' # "returned"
  /\ ~(key'.type = "Key" /\ key'.kind = "Press")

\* C16: only key presses trigger commands.  A release, a repeat or an event
\* that is not a key changes neither bookmarks, selected, the mode nor the
\* file and does not end the session, in either mode.
C16_OnlyPressesTrigger ==
  [][ HandlesNonPress
        => /\ UNCHANGED <<bookmarks, selected, file, stdout_lines>>
           /\ show_confirm' = show_confirm
           /\ pc' \in {"draw", "confirm_draw"}
           /\ result' = "running"
           /\ saves' = 0 ]_vars

C16_Witness ==
  /\ pc = "draw"
  /\ cmd = "Ignored"
  /\ key = KeyEvent("Release", "j")
  /\ Len(bookmarks) = 2
  /\ selected = 0

\* C17: in normal mode a press of a key outside j, Down, k, Up, u, !, Enter
\* and q (y, Y, n and N among them) changes neither bookmarks, selected,
\* the mode nor the file, raises no error and is followed by the next
\* render.
C17_OtherKeysAreNoOps ==
  [][ (pc = "read" /\ pc' # "returned"
         /\ key'.type = "Key" /\ key'.kind = "Press"
         /\ key'.code \notin {"j", "Down", "k", "Up", "u", "!", "Enter", "q"})
        => /\ UNCHANGED <<bookmarks, selected, file, stdout_lines>>
           /\ pc' = "draw"
           /\ result' = "running"
           /\ saves' = 0 ]_vars

C17_Witness ==
  /\ pc = "draw"
  /\ cmd = "Ignored"
  /\ key = Press("y")
  /\ Len(bookmarks) = 2
  /\ selected = 1

\* the loop is waiting for an event, in normal or in confirmation mode
WaitingForKey == pc \in {"read", "confirm_read"}

\* C18 as stated: whenever the loop waits for a key, a fresh load of the
\* file returns exactly the list in memory.
C18_StoreMatchesSession ==
  WaitingForKey => load_bookmarks(file) = bookmarks

\* C18 as amended: whenever the loop waits for a key and the file, if it
\* exists, can be read by the process, a fresh load of the file returns
\* exactly the list in memory.
C18_ReadableStoreMatchesSession ==
  (WaitingForKey /\ (file.exists => file.readable))
    => load_bookmarks(file) = bookmarks

C18_Witness ==
  /\ pc = "read"
  /\ cmd = "ConfirmYes"
  /\ saves = 1
  /\ Len(bookmarks) = 1
  /\ file.readable
  /\ load_bookmarks(file) = bookmarks

\* C19: the name of an added bookmark is made from the length of the list
\* at the time of the add alone, whatever names the list holds, so a list
\* can come to hold the same name twice (the witness: an add has just
\* appended a second bookmark_2).
C19_NameFromLengthOnly ==
  [][ AddOfNewPath
        => /\ bookmarks'[Len(bookmarks')].name = NameTable[Len(bookmarks) + 1]
           /\ (\E i \in 1..Len(bookmarks) : bookmarks[i].name = NameTable[Len(bookmarks) + 1])
                => \E i, j \in 1..Len(bookmarks') :
                     i # j /\ bookmarks'[i].name = bookmarks'[j].name ]_vars

C19_Witness ==
  /\ cmd = "AddCurrentDirectory"
  /\ pc = "draw"
  /\ saves = 1
  /\ Len(bookmarks) = 2
  /\ bookmarks[1].name = "bookmark_2"
  /\ bookmarks[2].name = "bookmark_2"
  /\ bookmarks[1].path # bookmarks[2].path

\* C20: the path line is written while the terminal is in raw mode on the
\* alternate screen, by the Enter handler and before the restoration
\* starts; the restoration and what follows never write a line, so a
\* session whose restoration fails ends with an error and the path already
\* emitted.
C20_EmitBeforeRestore ==
  [][ /\ stdout_lines' # stdout_lines
           => /\ Handles("read", {"Enter"})
              /\ raw /\ alt /\ raw' /\ alt'
              /\ pc' = "disable_raw"
              /\ stdout_lines' = <<bookmarks[selected + 1].path>>
      /\ pc \in {"disable_raw", "leave_alt", "returned"}
           => UNCHANGED stdout_lines
      /\ (~raw' /\ raw) \/ (~alt' /\ alt)
           => (cmd = "SelectCurrent" <=> stdout_lines # <<>>) ]_vars

C20_Witness ==
  /\ pc = "returned"
  /\ result = "err"
  /\ cmd = "SelectCurrent"
  /\ raw
  /\ alt
  /\ Len(bookmarks) = 2
  /\ stdout_lines = <<bookmarks[selected + 1].path>>

====
